---------------------------- MODULE Spec2Model ----------------------------
(***************************************************************************)
(* pastekit: getPastedData(evt) normalises a paste event into              *)
(* {files, text, html}.  One invocation is modelled as a state machine:    *)
(* the synchronous item loop, the getAsString callbacks that complete in   *)
(* any order, the Promise.all join, and the getData fallback.              *)
(*                                                                         *)
(* Strings are sequences of lexemes.  Each lexeme is a TLA+ string that    *)
(* stands for exactly the characters it shows, so that trimming, regex     *)
(* matching, percent-decoding and base64-decoding are computed, lexeme by  *)
(* lexeme, the way the JavaScript computes them character by character.    *)
(* A nullable value is <<>> (null/undefined) or <<v>>.                     *)
(***************************************************************************)
EXTENDS Integers, Sequences, FiniteSets, TLC

Null == <<>>
Some(v) == <<v>>

----------------------------------------------------------------------------
(* Lexemes *)

WS == {" "}
SvgOpenTok == {"<svg>", "<svg xmlns>"}
SvgCloseTok == {"</svg>"}
MimeTok == {"data:image/svg+xml"}
ParamTok == {";utf8", ";base64", ";charset=utf-8", ";param=x"}
Base64ParamTok == {";base64"}
CommaTok == {","}
ImgOpenTok == {"<img src='"}
ObjOpenTok == {"<object type='image/svg+xml' data='"}
AttrCloseTok == {"'>"}
BadPctTok == {"%"}

\* encodeURIComponent, lexeme by lexeme (unreserved characters stay).
PctTable ==
  ("<svg>" :> "%3Csvg%3E") @@ ("<svg xmlns>" :> "%3Csvg%20xmlns%3E") @@
  ("</svg>" :> "%3C%2Fsvg%3E") @@ ("<rect/>" :> "%3Crect%2F%3E") @@
  ("<circle/>" :> "%3Ccircle%2F%3E") @@ (" " :> "%20") @@ ("%" :> "%25") @@
  ("," :> "%2C") @@ ("e'" :> "%C3%A9")

\* base64 of the UTF-8 bytes, lexeme by lexeme.
B64Table ==
  ("<svg>" :> "PHN2Zz4=") @@ ("</svg>" :> "PC9zdmc+") @@
  ("<rect/>" :> "PHJlY3QvPg==") @@ ("x" :> "eA==") @@ ("e'" :> "w6k=")

\* What atob makes of a base64 lexeme: one character per byte.  The two
\* UTF-8 bytes of e-acute ("e'") come back as the two characters "A~(c)".
AtobTable ==
  ("PHN2Zz4=" :> "<svg>") @@ ("PC9zdmc+" :> "</svg>") @@
  ("PHJlY3QvPg==" :> "<rect/>") @@ ("eA==" :> "x") @@ ("w6k=" :> "A~(c)")

\* What Buffer.from(p, 'base64').toString('utf8') makes of it.
BufferTable ==
  ("PHN2Zz4=" :> "<svg>") @@ ("PC9zdmc+" :> "</svg>") @@
  ("PHJlY3QvPg==" :> "<rect/>") @@ ("eA==" :> "x") @@ ("w6k=" :> "e'")

RECURSIVE MapTok(_, _)
MapTok(table, s) ==
  IF s = <<>> THEN <<>>
  ELSE <<IF Head(s) \in DOMAIN table THEN table[Head(s)] ELSE Head(s)>>
         \o MapTok(table, Tail(s))

InvTable(table) ==
  [e \in {table[t] : t \in DOMAIN table} |->
     CHOOSE t \in DOMAIN table : table[t] = e]

encodeURIComponent(s) == MapTok(PctTable, s)

\* decodeURIComponent: throws URIError (Null here) on a malformed escape.
decodeURIComponent(s) ==
  IF \E i \in 1..Len(s) : s[i] \in BadPctTok THEN Null
  ELSE Some(MapTok(InvTable(PctTable), s))

\* atob: throws (Null here) on anything that is not base64.
atob(s) ==
  IF \E i \in 1..Len(s) : s[i] \notin DOMAIN AtobTable THEN Null
  ELSE Some(MapTok(AtobTable, s))

\* Buffer.from(s, 'base64').toString('utf8'): never throws, skips what is
\* not base64.
BufferDecode(s) ==
  Some(MapTok(BufferTable, SelectSeq(s, LAMBDA t : t \in DOMAIN BufferTable)))

\* String.prototype.trim
RECURSIVE trimStart(_)
trimStart(s) ==
  IF s # <<>> /\ Head(s) \in WS THEN trimStart(Tail(s)) ELSE s

RECURSIVE trimEnd(_)
trimEnd(s) ==
  IF s # <<>> /\ s[Len(s)] \in WS THEN trimEnd(SubSeq(s, 1, Len(s) - 1)) ELSE s

trim(s) == trimEnd(trimStart(s))

\* Least index >= from whose lexeme is in toks, 0 when there is none.
IndexOf(s, toks, from) ==
  LET I == {i \in from..Len(s) : s[i] \in toks}
  IN  IF I = {} THEN 0 ELSE CHOOSE i \in I : \A j \in I : i <= j

----------------------------------------------------------------------------
(* Data-URL codec *)

\* /^data:image\/svg\+xml[,;]/i.test(s)
isSvgDataUrl(s) ==
  /\ Len(s) >= 2
  /\ s[1] \in MimeTok
  /\ s[2] \in CommaTok \cup ParamTok

\* As if the payload were returned as it stands, undecoded.
decodeSvgDataUrlRaw(dataUrl, hasAtob) ==
  LET c == IndexOf(dataUrl, CommaTok, 2)
  IN  IF dataUrl = <<>> \/ dataUrl[1] \notin MimeTok \/ c = 0 THEN Null
      ELSE Some(SubSeq(dataUrl, c + 1, Len(dataUrl)))

\* match(/^data:image\/svg\+xml(;[^,]*)?,(.*)$/i), then atob or
\* decodeURIComponent; null on no match or on any exception.
decodeSvgDataUrl(dataUrl, hasAtob) ==
  LET c == IndexOf(dataUrl, CommaTok, 2)
      meta == SubSeq(dataUrl, 2, c - 1)
      payload == SubSeq(dataUrl, c + 1, Len(dataUrl))
  IN  IF \/ dataUrl = <<>>
         \/ dataUrl[1] \notin MimeTok
         \/ c = 0
         \/ (meta # <<>> /\ meta[1] \notin ParamTok)
      THEN Null
      ELSE IF \E i \in 1..Len(meta) : meta[i] \in Base64ParamTok
           THEN (IF hasAtob THEN atob(payload) ELSE BufferDecode(payload))
           ELSE decodeURIComponent(payload)

\* `if (decoded)`: null and the empty string are both falsy.
Truthy(opt) == opt # Null /\ opt[1] # <<>>

----------------------------------------------------------------------------
(* Plain-text matcher *)

\* s.match(/<svg[\s\S]*?<\/svg>/i): leftmost "<svg", shortest body.
matchInlineSvg(s) ==
  LET i == IndexOf(s, SvgOpenTok, 1)
      j == IF i = 0 THEN 0 ELSE IndexOf(s, SvgCloseTok, i + 1)
  IN  IF i = 0 \/ j = 0 THEN Null ELSE Some(SubSeq(s, i, j))

----------------------------------------------------------------------------
(* HTML locator.  DOMParser/XMLSerializer are the browser's; what is kept  *)
(* of them: attribute values are not markup, an <svg> left open is closed  *)
(* at the end of the input, and the serializer writes the root <svg> with  *)
(* its namespace declaration whether or not the input had one.             *)

\* The markup of an HTML string: lexemes inside a quoted attribute value
\* are blanked, so that they are never taken for tags.
RECURSIVE Markup(_, _)
Markup(s, inAttr) ==
  IF s = <<>> THEN <<>>
  ELSE IF inAttr
       THEN (IF Head(s) \in AttrCloseTok
             THEN <<Head(s)>> \o Markup(Tail(s), FALSE)
             ELSE <<"#">> \o Markup(Tail(s), TRUE))
       ELSE <<Head(s)>> \o Markup(Tail(s), Head(s) \in ImgOpenTok \cup ObjOpenTok)

\* Index of the tag closing the <svg> whose content starts at i (depth
\* counts the <svg> elements open), Len(m) + 1 when the input ends first.
RECURSIVE SvgEnd(_, _, _)
SvgEnd(m, i, depth) ==
  IF i > Len(m) THEN i
  ELSE IF m[i] \in SvgOpenTok THEN SvgEnd(m, i + 1, depth + 1)
  ELSE IF m[i] \in SvgCloseTok
       THEN (IF depth = 1 THEN i ELSE SvgEnd(m, i + 1, depth - 1))
  ELSE SvgEnd(m, i + 1, depth)

Count(s, toks) == Cardinality({i \in 1..Len(s) : s[i] \in toks})

\* new XMLSerializer().serializeToString(doc.querySelector('svg'))
serializeFirstSvg(html) ==
  LET m == Markup(html, FALSE)
      i == IndexOf(m, SvgOpenTok, 1)
      e == SvgEnd(m, i + 1, 1)
      last == IF e > Len(m) THEN Len(m) ELSE e
      open == Count(SubSeq(m, i, last), SvgOpenTok)
               - Count(SubSeq(m, i, last), SvgCloseTok)
  IN  IF i = 0 THEN Null
      ELSE Some(<<"<svg xmlns>">> \o SubSeq(html, i + 1, last)
                \o [k \in 1..open |-> "</svg>"])

\* The attribute value of the first element opened by a lexeme of `opens`
\* whose value begins with data:image/svg+xml (querySelector with [attr^=]).
RECURSIVE firstDataUrlAttr(_, _, _, _)
firstDataUrlAttr(html, m, opens, from) ==
  LET i == IndexOf(m, opens, from)
      j == IF i = 0 THEN 0 ELSE IndexOf(m, AttrCloseTok, i + 1)
  IN  IF i = 0 \/ j = 0 THEN Null
      ELSE IF j > i + 1 /\ html[i + 1] \in MimeTok
           THEN Some(SubSeq(html, i + 1, j - 1))
           ELSE firstDataUrlAttr(html, m, opens, j + 1)

\* As if the <img> were looked for before the <svg>.
extractFirstSvgFromHtmlImgFirst(html, hasAtob) ==
  LET m == Markup(html, FALSE)
      svgEl == serializeFirstSvg(html)
      img == firstDataUrlAttr(html, m, ImgOpenTok, 1)
      imgDecoded == IF img = Null THEN Null ELSE decodeSvgDataUrl(img[1], hasAtob)
      obj == firstDataUrlAttr(html, m, ObjOpenTok, 1)
      objDecoded == IF obj = Null THEN Null ELSE decodeSvgDataUrl(obj[1], hasAtob)
  IN  IF Truthy(imgDecoded) THEN imgDecoded
      ELSE IF svgEl # Null THEN svgEl
      ELSE IF Truthy(objDecoded) THEN objDecoded
      ELSE Null

extractFirstSvgFromHtml(html, hasAtob) ==
  LET m == Markup(html, FALSE)
      svgEl == serializeFirstSvg(html)
      img == firstDataUrlAttr(html, m, ImgOpenTok, 1)
      imgDecoded == IF img = Null THEN Null ELSE decodeSvgDataUrl(img[1], hasAtob)
      obj == firstDataUrlAttr(html, m, ObjOpenTok, 1)
      objDecoded == IF obj = Null THEN Null ELSE decodeSvgDataUrl(obj[1], hasAtob)
  IN  IF svgEl # Null THEN svgEl
      ELSE IF Truthy(imgDecoded) THEN imgDecoded
      ELSE IF Truthy(objDecoded) THEN objDecoded
      ELSE Null

----------------------------------------------------------------------------
(* Payload synthesizer *)

\* new File([text], `pasted-${Date.now()}.svg`, {type: 'image/svg+xml'});
\* the timestamp in the name is left out.
fileFromSvgText(text) ==
  [name |-> "pasted.svg", type |-> "image/svg+xml", content |-> text]

----------------------------------------------------------------------------
(* Inputs: the paste events one invocation may be given *)

MaxItems == 2

Empty == <<>>
Txt == <<"x">>
SvgRect == <<"<svg xmlns>", "<rect/>", "</svg>">>
SvgCircle == <<"<svg>", "<circle/>", "</svg>">>
\* 'data:image/svg+xml;utf8,' + encodeURIComponent(svg), as the tests build it
DataUrl(svg) == <<"data:image/svg+xml", ";utf8", ",">> \o encodeURIComponent(svg)
Svgs == {SvgRect, SvgCircle}

\* What a clipboard entry or a getData lookup may hold: nothing, text with
\* no SVG, markup around an <svg>, a data URL (bare, or with white space
\* around it, or one whose payload does not decode).
ClipStrings ==
  { Empty, Txt,
    <<"x">> \o SvgRect \o <<"x">>,
    SvgCircle,
    DataUrl(SvgRect),
    <<" ">> \o DataUrl(SvgCircle) \o <<" ">>,
    <<"data:image/svg+xml", ",", "%">> }

\* What the text/html and the text/plain entries of an item list resolve to.
HtmlStrings == {Empty, Txt, <<"x">> \o SvgRect \o <<"x">>}
PlainStrings == {Empty, Txt, SvgCircle, <<" ">> \o DataUrl(SvgCircle) \o <<" ">>}

HtmlType == "text/html"
PlainType == "text/plain"
ImageTypes == {"image/png"}
FileIds == {"F1", "F2"}

\* A DataTransferItem.  getAsFile: "none" (no such function), "throws",
\* "null" (returns null) or the file it returns.  getAsString: fn is "none",
\* "throws" or "cb" (calls the callback with str, at some later time).
Entry(k, t, f, fn, s) ==
  <<[kind |-> k, type |-> t, getAsFile |-> f, getAsString |-> [fn |-> fn, str |-> s]]>>

ItemValues ==
  {Null}
  \cup {Entry("file", "image/png", f, "none", Empty) :
          f \in FileIds \cup {"null", "throws", "none"}}
  \cup {Entry("file", "application/pdf", "F1", "none", Empty)}
  \cup {Entry("string", HtmlType, "none", "cb", s) : s \in HtmlStrings}
  \cup {Entry("string", PlainType, "none", "cb", s) : s \in PlainStrings}
  \cup {Entry("string", t, "none", fn, Empty) :
          t \in {HtmlType, PlainType}, fn \in {"none", "throws"}}

ItemLists == UNION {[1..n -> ItemValues] : n \in 0..MaxItems}

\* A DataTransfer: items (absent, or a list) and getData ("fn" or "none").
Sources ==
  [items : {Null} \cup {Some(l) : l \in ItemLists}, getData : {"fn", "none"}]

\* The event: absent altogether, or an object whose clipboardData and
\* originalEvent.clipboardData may each be missing.
Events ==
  {[present |-> FALSE, clipboardData |-> Null, originalEvent |-> Null]}
  \cup {[present |-> TRUE, clipboardData |-> Null, originalEvent |-> oe] :
          oe \in {Null, Some([clipboardData |-> Null])}}
  \cup {[present |-> TRUE, clipboardData |-> Some(dt), originalEvent |-> Null] :
          dt \in Sources}
  \cup {[present |-> TRUE, clipboardData |-> Null,
         originalEvent |-> Some([clipboardData |-> Some(dt)])] : dt \in Sources}

\* What getData(key) does: returns val, or throws.
Keys == {"text/html", "text/plain", "text"}
Returns(s) == [throws |-> FALSE, val |-> s]
Throws == [throws |-> TRUE, val |-> Empty]
LegacyStrings == {Empty, Txt, SvgCircle}
Stores ==
  { st \in [Keys -> {Returns(s) : s \in ClipStrings} \cup {Throws}] :
      st["text"].val \in LegacyStrings }

----------------------------------------------------------------------------
(* State of one invocation *)

VARIABLES
  evt,       \* the argument
  hasAtob,   \* typeof atob === 'function' in this environment
  store,     \* what getData answers, once the fallback has asked
  pc,        \* "start", "loop", "await", "keyed", "done", "threw"
  idx,       \* the item the for-of loop is at
  files,     \* extractFromItems' files
  promises,  \* textPromises, in the order pushed
  order,     \* the promises' indices in the order their callbacks ran
  calls,     \* the accessors called so far
  triple,    \* what extractFromItems returned, once it has
  result,    \* what getPastedData returned, once it has
  callee,    \* the exported function called: getPastedData, or a helper
  arg,       \* the argument of a helper called on its own
  ret        \* what the helper returned, once it has

vars ==
  <<evt, hasAtob, store, pc, idx, files, promises, order, calls, triple, result,
    callee, arg, ret>>

\* As if written `... || {}`: an empty source instead of none.
ResolveSourceOrEmpty(e) ==
  IF e.clipboardData # Null THEN e.clipboardData
  ELSE IF e.originalEvent # Null /\ e.originalEvent[1].clipboardData # Null
       THEN e.originalEvent[1].clipboardData
  ELSE Some([items |-> Null, getData |-> "none"])

\* evt.clipboardData || evt.originalEvent?.clipboardData || null
ResolveSource(e) ==
  IF e.clipboardData # Null THEN e.clipboardData
  ELSE IF e.originalEvent # Null THEN e.originalEvent[1].clipboardData
  ELSE Null

\* Array.from(dt.items || [])
ArrayFrom(dt) == IF dt.items = Null THEN <<>> ELSE dt.items[1]

\* typeof (items[0]?.getAsString === 'function' ||
\*         typeof items[0]?.getAsFile === 'function')
\* The operand is a boolean whatever the entry is, so this is "boolean".
typeofCapability(items) == "boolean"

\* items.length && typeof (...)
canUseItems(items) == Len(items) # 0 /\ typeofCapability(items) # ""

dt == ResolveSource(evt)[1]
items == ArrayFrom(dt)

EmptyResult == [files |-> <<>>, text |-> Null, html |-> Null]

Init ==
  /\ evt \in Events
  /\ hasAtob \in BOOLEAN
  /\ store = Null
  /\ pc = "start"
  /\ idx = 0
  /\ files = <<>>
  /\ promises = <<>>
  /\ order = <<>>
  /\ calls = <<>>
  /\ triple = Null
  /\ result = Null
  /\ callee = "getPastedData"
  /\ arg = Null
  /\ ret = Null

----------------------------------------------------------------------------
(* getPastedData, lines 12-24: the source and the choice of path *)

Start ==
  /\ pc = "start"
  /\ IF ~evt.present
     THEN \* evt.clipboardData of undefined: TypeError, the promise rejects
          /\ pc' = "threw"
          /\ UNCHANGED <<idx, result>>
     ELSE IF ResolveSource(evt) = Null
     THEN /\ result' = Some(EmptyResult)
          /\ pc' = "done"
          /\ UNCHANGED idx
     ELSE IF canUseItems(items)
     THEN /\ pc' = "loop"
          /\ idx' = 1
          /\ UNCHANGED result
     ELSE /\ pc' = "keyed"
          /\ UNCHANGED <<idx, result>>
  /\ UNCHANGED <<callee, arg, ret, evt, hasAtob, store, files, promises, order, calls, triple>>

----------------------------------------------------------------------------
(* extractFromItems, lines 56-73: one iteration of the for-of loop *)

\* item.kind === 'file' && item.type?.startsWith('image/')
IsImageFile(e) == e.kind = "file" /\ e.type \in ImageTypes

\* item.type === 'text/html' || item.type === 'text/plain'
IsTextItem(e) == e.type \in {HtmlType, PlainType}

\* const f = item.getAsFile?.(); if (f) files.push(f)
PushFile(fs, e) ==
  IF e.getAsFile \in {"none", "null"} THEN fs
  ELSE Append(fs, [name |-> e.getAsFile, type |-> e.type, content |-> Empty])

\* new Promise((resolve) => item.getAsString?.(resolve)).then(...): the
\* executor runs at once; if it throws the promise is rejected, and with no
\* getAsString nothing ever resolves it.
NewPromise(e, i) ==
  [type |-> e.type, item |-> i, fn |-> e.getAsString.fn, str |-> Empty,
   state |-> IF e.getAsString.fn = "throws" THEN "rejected" ELSE "pending"]

AfterItem == IF idx = Len(items) THEN "await" ELSE "loop"

LoopStep ==
  /\ pc = "loop"
  /\ LET item == items[idx] IN
       IF item = Null
       THEN \* item.kind of null: TypeError
            /\ pc' = "threw"
            /\ UNCHANGED <<idx, files, promises, calls>>
       ELSE IF IsImageFile(item[1])
       THEN IF item[1].getAsFile = "throws"
            THEN /\ pc' = "threw"
                 /\ calls' = Append(calls, "getAsFile")
                 /\ UNCHANGED <<idx, files, promises>>
            ELSE /\ files' = PushFile(files, item[1])
                 /\ calls' = IF item[1].getAsFile = "none" THEN calls
                             ELSE Append(calls, "getAsFile")
                 /\ idx' = idx + 1
                 /\ pc' = AfterItem
                 /\ UNCHANGED promises
       ELSE IF IsTextItem(item[1])
       THEN /\ promises' = Append(promises, NewPromise(item[1], idx))
            /\ calls' = IF item[1].getAsString.fn = "none" THEN calls
                        ELSE Append(calls, "getAsString")
            /\ idx' = idx + 1
            /\ pc' = AfterItem
            /\ UNCHANGED files
       ELSE /\ idx' = idx + 1
            /\ pc' = AfterItem
            /\ UNCHANGED <<files, promises, calls>>
  /\ UNCHANGED <<callee, arg, ret, evt, hasAtob, store, order, triple, result>>

\* The clipboard calls the callback given to getAsString: resolve(str).
Callback(i) ==
  /\ pc \in {"loop", "await"}
  /\ i \in 1..Len(promises)
  /\ promises[i].state = "pending"
  /\ promises[i].fn = "cb"
  /\ promises' = [promises EXCEPT ![i].state = "resolved",
                                  ![i].str = items[promises[i].item][1].getAsString.str]
  /\ order' = Append(order, i)
  /\ UNCHANGED <<callee, arg, ret, evt, hasAtob, store, pc, idx, files, calls, triple, result>>

----------------------------------------------------------------------------
(* extractFromItems, lines 75-98: the join, the selection, the extraction *)

\* As if the values were collected as the callbacks ran.
PromiseAllAsCompleted(ps, ord) ==
  [k \in 1..Len(ord) |-> [type |-> ps[ord[k]].type, str |-> ps[ord[k]].str]]

\* await Promise.all(textPromises): the values in the order of the promises
PromiseAll(ps, ord) == [i \in 1..Len(ps) |-> [type |-> ps[i].type, str |-> ps[i].str]]

\* As if written texts.find((t) => t.type === type).
FindAnyString(texts, type) ==
  LET I == {i \in 1..Len(texts) : texts[i].type = type}
  IN  IF I = {} THEN Null ELSE Some(texts[CHOOSE i \in I : \A j \in I : i <= j])

\* texts.find((t) => t.type === type && t.str)
Find(texts, type) ==
  LET I == {i \in 1..Len(texts) : texts[i].type = type /\ texts[i].str # Empty}
  IN  IF I = {} THEN Null ELSE Some(texts[CHOOSE i \in I : \A j \in I : i <= j])

\* entry?.str || null, and plain || null
OrNull(opt) == IF Truthy(opt) THEN opt ELSE Null

StrOf(entry) == IF entry = Null THEN Null ELSE Some(entry[1].str)

\* As if the extracted SVG replaced the files collected so far.
PushHtmlSvgReplacing(fs, html, atobOk) ==
  IF html # Null /\ Truthy(extractFirstSvgFromHtml(html[1], atobOk))
  THEN <<fileFromSvgText(extractFirstSvgFromHtml(html[1], atobOk)[1])>>
  ELSE fs

\* lines 83-86: if (html) { svg = extractFirstSvgFromHtml(html); if (svg) push }
PushHtmlSvg(fs, html, atobOk) ==
  IF html # Null /\ Truthy(extractFirstSvgFromHtml(html[1], atobOk))
  THEN Append(fs, fileFromSvgText(extractFirstSvgFromHtml(html[1], atobOk)[1]))
  ELSE fs

\* lines 35-40 and 90-95: the inline match, else the decoded data URL
PushPlainSvg(fs, text, atobOk) ==
  LET inlineSvg == matchInlineSvg(text)
      decoded == decodeSvgDataUrl(trim(text), atobOk)
  IN  IF inlineSvg # Null THEN Append(fs, fileFromSvgText(inlineSvg[1]))
      ELSE IF isSvgDataUrl(trim(text)) /\ Truthy(decoded)
           THEN Append(fs, fileFromSvgText(decoded[1]))
           ELSE fs

\* lines 89-96: if (text) { ... }
PushTextSvg(fs, text, atobOk) ==
  IF text # Null THEN PushPlainSvg(fs, text[1], atobOk) ELSE fs

\* As if html were the first text/html entry's string, empty or not.
extractFromItemsFirstHtml(fs, texts, atobOk) ==
  LET html == StrOf(FindAnyString(texts, HtmlType))
      text == OrNull(StrOf(Find(texts, PlainType)))
  IN  [files |-> PushTextSvg(PushHtmlSvg(fs, html, atobOk), text, atobOk),
       text |-> text, html |-> html]

\* As if text and html were left null once real files were collected.
extractFromItemsFilesOnly(fs, texts, atobOk) ==
  LET html == OrNull(StrOf(Find(texts, HtmlType)))
      text == OrNull(StrOf(Find(texts, PlainType)))
  IN  [files |-> PushTextSvg(PushHtmlSvg(fs, html, atobOk), text, atobOk),
       text |-> IF fs = <<>> THEN text ELSE Null,
       html |-> IF fs = <<>> THEN html ELSE Null]

\* lines 76-98
extractFromItems(fs, texts, atobOk) ==
  LET html == OrNull(StrOf(Find(texts, HtmlType)))
      text == OrNull(StrOf(Find(texts, PlainType)))
  IN  [files |-> PushTextSvg(PushHtmlSvg(fs, html, atobOk), text, atobOk),
       text |-> text, html |-> html]

\* As if the ItemList triple were returned whatever it holds.
YieldedAlways(t) == TRUE

\* files.length || text || html
Yielded(t) == Len(t.files) # 0 \/ t.text # Null \/ t.html # Null

\* Promise.all rejects as soon as one of the promises is rejected.
JoinReject ==
  /\ pc = "await"
  /\ \E i \in 1..Len(promises) : promises[i].state = "rejected"
  /\ pc' = "threw"
  /\ UNCHANGED <<callee, arg, ret, evt, hasAtob, store, idx, files, promises, order, calls, triple, result>>

JoinResolve ==
  /\ pc = "await"
  /\ \A i \in 1..Len(promises) : promises[i].state = "resolved"
  /\ LET t == extractFromItems(files, PromiseAll(promises, order), hasAtob) IN
       /\ triple' = Some(t)
       /\ files' = t.files
       /\ IF Yielded(t)
          THEN result' = Some(t) /\ pc' = "done"
          ELSE result' = result /\ pc' = "keyed"
  /\ UNCHANGED <<callee, arg, ret, evt, hasAtob, store, idx, promises, order, calls>>

----------------------------------------------------------------------------
(* getPastedData, lines 26-43: the getData fallback *)

\* As if one try/catch were around all the lookups: a throw empties them all.
getDataSafeAllOrNothing(src, st, type) ==
  IF src.getData = "none" \/ \E k \in Keys : st[k].throws THEN Empty ELSE st[type].val

\* try { return dt.getData?.(type) || '' } catch { return '' }
getDataSafe(src, st, type) ==
  IF src.getData = "none" \/ st[type].throws THEN Empty ELSE st[type].val

\* getDataSafe(dt, 'text/plain') || getDataSafe(dt, 'text')
getPlain(src, st) ==
  IF getDataSafe(src, st, "text/plain") # Empty
  THEN getDataSafe(src, st, "text/plain")
  ELSE getDataSafe(src, st, "text")

\* The getData calls made, in order.
getDataCalls(src, st) ==
  IF src.getData = "none" THEN <<>>
  ELSE <<"getData:text/html", "getData:text/plain">>
       \o (IF getDataSafe(src, st, "text/plain") # Empty THEN <<>>
           ELSE <<"getData:text">>)

\* lines 34-41: if (plain && !svgFromHtml) { ... }
PushPlainSvgUnlessHtml(fs, plain, atobOk) ==
  IF plain # Empty /\ fs = <<>> THEN PushPlainSvg(fs, plain, atobOk) ELSE fs

\* As if the trimmed plain text were what is returned as text.
extractFromStoreTrimmed(html, plain, atobOk) ==
  [files |-> PushPlainSvgUnlessHtml(
               PushHtmlSvg(<<>>, OrNull(Some(html)), atobOk), plain, atobOk),
   text |-> OrNull(Some(trim(plain))),
   html |-> OrNull(Some(html))]

\* lines 30-43
extractFromStore(html, plain, atobOk) ==
  [files |-> PushPlainSvgUnlessHtml(
               PushHtmlSvg(<<>>, OrNull(Some(html)), atobOk), plain, atobOk),
   text |-> OrNull(Some(plain)),
   html |-> OrNull(Some(html))]

Keyed ==
  /\ pc = "keyed"
  /\ \E st \in Stores :
       /\ dt.getData = "none" => \A k \in Keys : st[k] = Returns(Empty)
       /\ store' = Some(st)
       /\ calls' = calls \o getDataCalls(dt, st)
       /\ result' = Some(extractFromStore(getDataSafe(dt, st, "text/html"),
                                          getPlain(dt, st), hasAtob))
  /\ pc' = "done"
  /\ UNCHANGED <<callee, arg, ret, evt, hasAtob, idx, files, promises, order, triple>>

Next ==
  \/ Start
  \/ LoopStep
  \/ \E i \in 1..MaxItems : Callback(i)
  \/ JoinReject
  \/ JoinResolve
  \/ Keyed

Spec == Init /\ [][Next]_vars

----------------------------------------------------------------------------
(* Vocabulary of the properties, spelled from the inputs *)

HasSource == evt.present /\ ResolveSource(evt) # Null
Returned == pc = "done"
res == result[1]

IsSynth(f) == f.name = "pasted.svg"
Synthesized(fs) == SelectSeq(fs, IsSynth)

IsEntry(it) == it # Null
IsRealImage(it) ==
  IsEntry(it) /\ it[1].kind = "file" /\ it[1].type \in ImageTypes
  /\ it[1].getAsFile \in FileIds
IsTextOf(it, type) == IsEntry(it) /\ it[1].type = type

\* The files the image entries of a list hand over, in entry order.
PassThroughOf(l) ==
  LET es == SelectSeq(l, IsRealImage)
  IN  [i \in 1..Len(es) |->
         [name |-> es[i][1].getAsFile, type |-> es[i][1].type, content |-> Empty]]

\* The string of the first entry (by position) declared `type` whose string
\* is not empty.
FirstNonEmptyOf(l, type) ==
  LET I == {i \in 1..Len(l) : IsTextOf(l[i], type) /\ l[i][1].getAsString.str # Empty}
  IN  IF I = {} THEN Null
      ELSE Some(l[CHOOSE i \in I : \A j \in I : i <= j][1].getAsString.str)

\* The declared types and strings of a list's text entries, by position.
TextsOf(l) ==
  LET es == SelectSeq(l, LAMBDA it : IsEntry(it) /\ IsTextItem(it[1]))
  IN  [i \in 1..Len(es) |-> [type |-> es[i][1].type, str |-> es[i][1].getAsString.str]]

\* The Result of an invocation on the list l of entries that all answer,
\* with the clipboard's getData answering as `store` says; Null when that
\* invocation would ask getData and the store was never revealed.
ResultOf(l) ==
  LET t == extractFromItems(PassThroughOf(l), TextsOf(l), hasAtob)
  IN  IF Len(l) # 0 /\ Yielded(t) THEN Some(t)
      ELSE IF store = Null THEN Null
      ELSE Some(extractFromStore(getDataSafe(dt, store[1], "text/html"),
                                 getPlain(dt, store[1]), hasAtob))

\* The ItemList path ran and its triple is what was returned.
FromItems == Returned /\ triple # Null /\ store = Null
\* The getData fallback produced what was returned.
FromStore == Returned /\ store # Null

NoGetData == \A i \in 1..Len(calls) : calls[i] \in {"getAsFile", "getAsString"}

----------------------------------------------------------------------------
(* C1..C5 *)

\* C1: every Result holds at most one synthesized SVG file, and when the
\* html string has extractable SVG that file is the one made from the html
\* (the plain text is matched only when the html gave nothing).
C1_AtMostOneSynthesizedHtmlFirst ==
  (Returned /\ HasSource) =>
    /\ Len(Synthesized(res.files)) <= 1
    /\ (res.html # Null /\ Truthy(extractFirstSvgFromHtml(res.html[1], hasAtob)))
         => Synthesized(res.files)
              = <<fileFromSvgText(extractFirstSvgFromHtml(res.html[1], hasAtob)[1])>>

\* C2: the files of the image entries are the first files of the Result, in
\* entry order and unchanged; whatever follows them is synthesized.
C2_PassThroughKept ==
  (Returned /\ HasSource) =>
    LET kept == PassThroughOf(items) IN
      /\ Len(res.files) >= Len(kept)
      /\ SubSeq(res.files, 1, Len(kept)) = kept
      /\ \A i \in (Len(kept) + 1)..Len(res.files) : IsSynth(res.files[i])

\* C2's case: the ItemList path returned two pass-through files, or one
\* followed by a synthesized file.
C2_Witness ==
  /\ FromItems
  /\ Len(PassThroughOf(items)) >= 1
  /\ Len(res.files) = 2

\* C3: whatever the order in which the callbacks ran, html is the string of
\* the first text/html entry with a non-empty string and text that of the
\* first such text/plain entry, and the Result is the one the list
\* determines.
C3_SelectionByTypeAndPosition ==
  /\ triple # Null =>
       /\ triple[1].html = FirstNonEmptyOf(items, HtmlType)
       /\ triple[1].text = FirstNonEmptyOf(items, PlainType)
  /\ (Returned /\ HasSource) => result = ResultOf(items)

\* C3's case: the second promise's callback ran before the first's, both
\* strings non-empty, and the Result was returned.
C3_Witness ==
  /\ FromItems
  /\ order = <<2, 1>>
  /\ \A i \in 1..2 : promises[i].str # Empty
  /\ promises[1].str # promises[2].str

\* C4: no invocation ends with an exception escaping (a rejected promise).
C4_NeverThrows == pc # "threw"

\* C5: with no clipboard source on the event or on its originalEvent, the
\* first step returns {files: [], text: null, html: null}; no item is read
\* and no accessor called.
C5_NoSourceShortCircuit ==
  ( /\ pc # "start"
    /\ evt.present
    /\ evt.clipboardData = Null
    /\ (evt.originalEvent = Null \/ evt.originalEvent[1].clipboardData = Null) )
  => /\ pc = "done"
     /\ result = Some(EmptyResult)
     /\ calls = <<>> /\ idx = 0 /\ promises = <<>> /\ store = Null

\* C5's case: an event with an originalEvent that has no clipboardData has
\* been answered.
C5_Witness ==
  /\ Returned
  /\ evt.clipboardData = Null
  /\ evt.originalEvent # Null
  /\ evt.originalEvent[1].clipboardData = Null

----------------------------------------------------------------------------
(* C6..C10 *)

\* C6: a triple of the ItemList path with a file, a text or an html is the
\* Result and getData is never called; with no items, an empty list, or a
\* triple holding nothing, the Result is what the getData path computes.
C6_ItemsElseStore ==
  (Returned /\ HasSource) =>
    IF /\ triple # Null
       /\ (Len(triple[1].files) > 0 \/ triple[1].text # Null \/ triple[1].html # Null)
    THEN result = triple /\ store = Null /\ NoGetData
    ELSE /\ store # Null
         /\ (dt.items = Null \/ dt.items[1] = <<>>) => triple = Null
         /\ result = Some(extractFromStore(getDataSafe(dt, store[1], "text/html"),
                                           getPlain(dt, store[1]), hasAtob))

\* C6's case: the ItemList path ran and yielded nothing, and the getData
\* path then produced a file.
C6_Witness ==
  /\ FromStore
  /\ triple # Null
  /\ res.files # <<>>

\* The lists C7 is about: a text/html entry that resolves to the empty
\* string, and a text/plain entry.
HasEmptyHtmlEntry(l) ==
  \E i \in 1..Len(l) :
    IsTextOf(l[i], HtmlType) /\ l[i][1].getAsString = [fn |-> "cb", str |-> Empty]
HasPlainEntry(l) == \E i \in 1..Len(l) : IsTextOf(l[i], PlainType)
OnlyEmptyHtml(l) == FirstNonEmptyOf(l, HtmlType) = Null
WithoutEmptyHtml(l) ==
  SelectSeq(l, LAMBDA it :
    ~(IsTextOf(it, HtmlType) /\ it[1].getAsString = [fn |-> "cb", str |-> Empty]))

\* C7 as stated: html is null, and text and files are those of the list
\* without the text/html entry.
C7_EmptyHtmlGivesNullHtml ==
  ( /\ Returned /\ HasSource
    /\ HasEmptyHtmlEntry(items) /\ HasPlainEntry(items) /\ OnlyEmptyHtml(items) )
  => /\ res.html = Null
     /\ ResultOf(WithoutEmptyHtml(items)) # Null
     /\ res.text = ResultOf(WithoutEmptyHtml(items))[1].text
     /\ res.files = ResultOf(WithoutEmptyHtml(items))[1].files

\* C7 amended: the Result is that of the list without the empty text/html
\* entries, and html is null when the Result is the ItemList path's own.
C7_EmptyHtmlAsIfNotOffered ==
  ( /\ Returned /\ HasSource
    /\ HasEmptyHtmlEntry(items) /\ HasPlainEntry(items) )
  => /\ result = ResultOf(WithoutEmptyHtml(items))
     /\ (OnlyEmptyHtml(items) /\ store = Null) => res.html = Null

\* C7's case: the html entry resolved to "", and the plain entry's data URL
\* was decoded into a file.
C7_Witness ==
  /\ FromItems
  /\ HasEmptyHtmlEntry(items) /\ HasPlainEntry(items) /\ OnlyEmptyHtml(items)
  /\ res.text # Null
  /\ isSvgDataUrl(trim(res.text[1]))
  /\ Len(res.files) = 1

\* C8's case: getData exists, 'text/html' answers "" and 'text/plain'
\* answers the data URL of svg.
StoreHoldsDataUrlOf(svg) ==
  /\ FromStore
  /\ dt.getData = "fn"
  /\ store[1]["text/html"] = Returns(Empty)
  /\ store[1]["text/plain"] = Returns(DataUrl(svg))

\* C8 as stated: one file whose text is the SVG, text and html both null.
C8_DataUrlTextAbsent ==
  \A svg \in Svgs :
    StoreHoldsDataUrlOf(svg) =>
      /\ res.files = <<fileFromSvgText(svg)>>
      /\ res.text = Null
      /\ res.html = Null

\* C8 amended: one file whose text is the SVG, html null, and text the data
\* URL itself.
C8_DataUrlDecodedTextKept ==
  \A svg \in Svgs :
    StoreHoldsDataUrlOf(svg) =>
      /\ res.files = <<fileFromSvgText(svg)>>
      /\ res.text = Some(DataUrl(svg))
      /\ res.html = Null

\* C8's case: the fallback answered a data URL with no html offered.
C8_Witness == \E svg \in Svgs : StoreHoldsDataUrlOf(svg)

\* C9's case: a real image file entry, and inline SVG in the text/html
\* string the list selects.
HasFileAndHtmlSvg(l) ==
  /\ \E i \in 1..Len(l) : IsRealImage(l[i])
  /\ FirstNonEmptyOf(l, HtmlType) # Null
  /\ serializeFirstSvg(FirstNonEmptyOf(l, HtmlType)[1]) # Null

\* C9 as stated: the pass-through file and one synthesized file, and text
\* and html both null.
C9_FileAndSvgTextHtmlAbsent ==
  (Returned /\ HasSource /\ HasFileAndHtmlSvg(items)) =>
    /\ Len(Synthesized(res.files)) = 1
    /\ \E i \in 1..Len(res.files) : ~IsSynth(res.files[i])
    /\ res.text = Null
    /\ res.html = Null

\* C9 amended: the pass-through files, then the file synthesized from the
\* html; html is the entry's string and text the first non-empty
\* text/plain string, if any.
C9_FileAndSvgHtmlKept ==
  (Returned /\ HasSource /\ HasFileAndHtmlSvg(items)) =>
    LET kept == PassThroughOf(items)
        html == FirstNonEmptyOf(items, HtmlType)
    IN  /\ Len(res.files) > Len(kept)
        /\ SubSeq(res.files, 1, Len(kept)) = kept
        /\ res.files[Len(kept) + 1] = fileFromSvgText(serializeFirstSvg(html[1])[1])
        /\ res.html = html
        /\ res.text = FirstNonEmptyOf(items, PlainType)

\* C9's case: the ItemList path returned the real file and the file made
\* from the html.
C9_Witness ==
  /\ FromItems
  /\ HasFileAndHtmlSvg(items)
  /\ Len(res.files) = 2

\* The strings the clipboard handed over for a type: the resolved strings
\* of the entries declared that type when the Result is the ItemList
\* path's, what getData returned for the keys otherwise.
Obtained(type, keys) ==
  IF store = Null
  THEN {promises[i].str : i \in {j \in 1..Len(promises) :
           promises[j].type = type /\ promises[j].state = "resolved"}}
  ELSE {store[1][k].val : k \in {j \in keys :
           dt.getData = "fn" /\ ~store[1][j].throws}}

\* C10: html is null or exactly a non-empty text/html string obtained, text
\* is null or exactly a non-empty plain string obtained.
C10_TextHtmlVerbatim ==
  (Returned /\ HasSource) =>
    /\ res.html # Null =>
         res.html[1] # Empty /\ res.html[1] \in Obtained(HtmlType, {"text/html"})
    /\ res.text # Null =>
         res.text[1] # Empty /\ res.text[1] \in Obtained(PlainType, {"text/plain", "text"})

\* C10's case: the plain text was trimmed and decoded to make the file, and
\* is returned with its white space.
C10_Witness ==
  /\ FromStore
  /\ res.files # <<>>
  /\ res.text # Null
  /\ trim(res.text[1]) # res.text[1]

----------------------------------------------------------------------------
(* The exported helpers called on their own: decodeSvgDataUrl on a data    *)
(* URL built from an SVG, extractFirstSvgFromHtml on a document built from *)
(* a list of elements.                                                     *)

MaxBody == 2
MaxEls == 3

\* Buffer.from(svg, 'utf8').toString('base64'), as the tests build it
encodeBase64(s) == MapTok(B64Table, s)

\* <svg>...</svg> around up to MaxBody lexemes, ASCII or not.
BodyToks == {"<rect/>", "x", "e'"}
RoundTripSvgs ==
  {<<"<svg>">> \o b \o <<"</svg>">> :
     b \in UNION {[1..n -> BodyToks] : n \in 0..MaxBody}}

\* Comma-free parameters put before the ',' of the URL.
ExtraParams == {<<>>, <<";charset=utf-8">>, <<";charset=utf-8", ";param=x">>}

CodecArgs ==
  {[svg |-> s, params |-> e \o <<";base64">>, enc |-> "base64"] :
     s \in RoundTripSvgs, e \in ExtraParams}
  \cup {[svg |-> s, params |-> <<";base64">> \o e, enc |-> "base64"] :
     s \in RoundTripSvgs, e \in ExtraParams}
  \cup {[svg |-> s, params |-> e, enc |-> "percent"] :
     s \in RoundTripSvgs, e \in ExtraParams}

\* 'data:image/svg+xml' + params + ',' + payload
UrlOf(a) ==
  <<"data:image/svg+xml">> \o a.params \o <<",">>
  \o (IF a.enc = "base64" THEN encodeBase64(a.svg) ELSE encodeURIComponent(a.svg))

\* The elements of a document.  An <svg> with one child, an <img> with a
\* src, an <object type="image/svg+xml"> with a data, or text.
SvgEl(open, child) == [tag |-> "svg", open |-> open, val |-> <<child>>]
ImgEl(src) == [tag |-> "img", open |-> "<img src='", val |-> src]
ObjEl(data) ==
  [tag |-> "object", open |-> "<object type='image/svg+xml' data='", val |-> data]
TextEl == [tag |-> "text", open |-> "x", val |-> <<>>]

UndecodableUrl == <<"data:image/svg+xml", ",", "%">>
Base64Url == <<"data:image/svg+xml", ";base64", ",">> \o encodeBase64(<<"<svg>", "x", "</svg>">>)

Elements ==
  { SvgEl("<svg xmlns>", "<rect/>"), SvgEl("<svg>", "<circle/>"),
    ImgEl(DataUrl(SvgRect)), ImgEl(UndecodableUrl), ImgEl(Txt),
    ObjEl(Base64Url), ObjEl(UndecodableUrl),
    TextEl }

Render(el) ==
  IF el.tag = "svg" THEN <<el.open>> \o el.val \o <<"</svg>">>
  ELSE IF el.tag = "text" THEN <<el.open>>
  ELSE <<el.open>> \o el.val \o <<"'>">>

RECURSIVE HtmlOf(_)
HtmlOf(els) == IF els = <<>> THEN <<>> ELSE Render(Head(els)) \o HtmlOf(Tail(els))

Documents == UNION {[1..n -> Elements] : n \in 0..MaxEls}

InitHelpers ==
  /\ \/ callee = "decodeSvgDataUrl" /\ arg \in CodecArgs
     \/ callee = "extractFirstSvgFromHtml" /\ arg \in Documents
  /\ hasAtob \in BOOLEAN
  /\ ret = Null
  /\ pc = "call"
  /\ evt = [present |-> FALSE, clipboardData |-> Null, originalEvent |-> Null]
  /\ store = Null
  /\ idx = 0
  /\ files = <<>>
  /\ promises = <<>>
  /\ order = <<>>
  /\ calls = <<>>
  /\ triple = Null
  /\ result = Null

main == <<evt, hasAtob, store, idx, files, promises, order, calls, triple, result>>

Decode ==
  /\ pc = "call"
  /\ callee = "decodeSvgDataUrl"
  /\ ret' = decodeSvgDataUrl(UrlOf(arg), hasAtob)
  /\ pc' = "returned"
  /\ UNCHANGED <<callee, arg, main>>

Extract ==
  /\ pc = "call"
  /\ callee = "extractFirstSvgFromHtml"
  /\ ret' = extractFirstSvgFromHtml(HtmlOf(arg), hasAtob)
  /\ pc' = "returned"
  /\ UNCHANGED <<callee, arg, main>>

NextHelpers == Decode \/ Extract

SpecHelpers == InitHelpers /\ [][NextHelpers]_vars

----------------------------------------------------------------------------
(* C11, C12 *)

Decoded == callee = "decodeSvgDataUrl" /\ pc = "returned"
Extracted == callee = "extractFirstSvgFromHtml" /\ pc = "returned"

\* C11: decodeSvgDataUrl gives back the SVG a data URL was built from, for
\* the base64 of its UTF-8 bytes with ';base64' among the parameters and
\* for its percent-encoding without, whatever other parameters precede ','.
C11_RoundTrip == Decoded => ret = Some(arg.svg)

\* Positions of the elements of a document with tag `tag` whose value
\* begins with data:image/svg+xml.
DataUrlEls(els, tag) ==
  {i \in 1..Len(els) :
     els[i].tag = tag /\ els[i].val # <<>> /\ els[i].val[1] \in MimeTok}
SvgEls(els) == {i \in 1..Len(els) : els[i].tag = "svg"}
First(I) == CHOOSE i \in I : \A j \in I : i <= j

\* C12 as stated: the first <svg> serialized; with no <svg>, the decoded
\* data URL of the first <img> with such a src; with no such <img>, that
\* of the first such <object>; otherwise null.
C12_FirstMatchWins ==
  Extracted =>
    IF SvgEls(arg) # {}
    THEN ret = Some(<<"<svg xmlns>">> \o arg[First(SvgEls(arg))].val \o <<"</svg>">>)
    ELSE IF DataUrlEls(arg, "img") # {}
    THEN ret = decodeSvgDataUrl(arg[First(DataUrlEls(arg, "img"))].val, hasAtob)
    ELSE IF DataUrlEls(arg, "object") # {}
    THEN ret = decodeSvgDataUrl(arg[First(DataUrlEls(arg, "object"))].val, hasAtob)
    ELSE ret = Null

\* C12 amended: the first <img> counts only if its data URL decodes to a
\* non-empty string, and the first <object> is tried when it does not.
C12_FirstDecodableWins ==
  Extracted =>
    LET img == IF DataUrlEls(arg, "img") = {} THEN Null
               ELSE decodeSvgDataUrl(arg[First(DataUrlEls(arg, "img"))].val, hasAtob)
        obj == IF DataUrlEls(arg, "object") = {} THEN Null
               ELSE decodeSvgDataUrl(arg[First(DataUrlEls(arg, "object"))].val, hasAtob)
    IN  IF SvgEls(arg) # {}
        THEN ret = Some(<<"<svg xmlns>">> \o arg[First(SvgEls(arg))].val \o <<"</svg>">>)
        ELSE IF img # Null /\ img[1] # Empty THEN ret = img
        ELSE IF obj # Null /\ obj[1] # Empty THEN ret = obj
        ELSE ret = Null

\* C12's case: a decodable <img>, then two different <svg> elements; the
\* first <svg> is what came back.
C12_Witness ==
  /\ Extracted
  /\ Len(arg) = 3
  /\ arg[1] = ImgEl(DataUrl(SvgRect))
  /\ arg[2].tag = "svg" /\ arg[3].tag = "svg" /\ arg[2] # arg[3]
  /\ ret = Some(<<"<svg xmlns>">> \o arg[2].val \o <<"</svg>">>)

----------------------------------------------------------------------------
(* C13, C14, C15 *)

\* The entry has a getAsFile or a getAsString function.
Offers(e) == e # Null /\ (e[1].getAsFile # "none" \/ e[1].getAsString.fn # "none")
Usable(l) == \E i \in 1..Len(l) : Offers(l[i])

\* C13: the ItemList loop is entered only for a list with an entry that
\* offers getAsFile or getAsString; for a non-empty list with no such entry
\* the invocation goes straight to the getData lookups.
C13_ItemListOnlyIfCapable ==
  (HasSource /\ pc # "start" /\ ~Usable(items)) =>
     /\ idx = 0
     /\ promises = <<>>
     /\ pc \in {"keyed", "done"}
     /\ Returned /\ items # <<>> => store # Null

\* What the lookup of key k gives, spelled from the source and its answers.
Lookup(k) ==
  IF dt.getData = "none" \/ store[1][k].throws THEN Empty ELSE store[1][k].val
IsGetData(c) == c \in {"getData:" \o k : k \in Keys}

\* C14: on the getData path 'text/html' is looked up, then 'text/plain',
\* then 'text' only if 'text/plain' gave nothing; a lookup that throws, or
\* a source with no getData, gives the empty string for that key alone, and
\* the step from the lookups always ends in a returned Result.
C14_KeyedLookups ==
  /\ [](FromStore =>
         /\ SelectSeq(calls, IsGetData) =
              IF dt.getData = "none" THEN <<>>
              ELSE IF Lookup("text/plain") # Empty
              THEN <<"getData:text/html", "getData:text/plain">>
              ELSE <<"getData:text/html", "getData:text/plain", "getData:text">>
         /\ res.html = OrNull(Some(Lookup("text/html")))
         /\ res.text = OrNull(Some(IF Lookup("text/plain") # Empty
                                   THEN Lookup("text/plain") ELSE Lookup("text"))))
  /\ [][pc = "keyed" => pc' = "done" /\ result' # Null]_vars

\* C14's case: 'text/plain' throws, 'text/html' and 'text' answer, and both
\* answers are in the Result.
C14_Witness ==
  /\ FromStore
  /\ dt.getData = "fn"
  /\ store[1]["text/plain"].throws
  /\ ~store[1]["text/html"].throws /\ store[1]["text/html"].val # Empty
  /\ store[1]["text"] = Returns(Txt)
  /\ res.text = Some(Txt)
  /\ res.html = Some(store[1]["text/html"].val)
  /\ calls[Len(calls)] = "getData:text"

\* C15: an invocation that has neither returned nor thrown can always take a
\* step: it never waits for anything but a callback that is still to come.
C15_NeverStalls == pc \in {"done", "threw"} \/ ENABLED Next

=============================================================================
